---- MODULE Spec2Model ----
(***************************************************************************)
(* Model of scripts/extract-pins.py: the certificate pin extractor.        *)
(*                                                                         *)
(* Strings are modelled as sequences of tokens: a token is an atomic piece *)
(* of text ("sha256/", "FAILED_TO_EXTRACT", a whitespace character, ...),  *)
(* and string concatenation is sequence concatenation.  The cryptographic  *)
(* stages of the shell pipeline are modelled as injective constructors     *)
(* that wrap their input, so that the digest of the empty input and the    *)
(* digest of a key stay distinguishable.                                   *)
(***************************************************************************)
EXTENDS Naturals, Sequences, FiniteSets, TLC

VARIABLES
    pc,         \* position of the single thread of control
    idx,        \* index into PROVIDERS of the provider being handled
    pins,       \* the dict pins, as the sequence of its (key, value) items
    out,        \* standard output: the sequence of printed lines
    calls,      \* domains for which subprocess.run was invoked, in order
    inflight,   \* domains whose subprocess.run has started and not ended
    results,    \* history: what each extract_pin call saw and returned
    exitCode    \* process exit status: <<>> while the process runs

vars == <<pc, idx, pins, out, calls, inflight, results, exitCode>>

-----------------------------------------------------------------------------
(* Bounds of the model *)

MaxDuration == 11   \* longest tool run time tried, in seconds
MaxLen == 3         \* longest standard output tried on extract_pin alone

-----------------------------------------------------------------------------
(* Program constants *)

TIMEOUT == 10

PROVIDERS ==
    << <<"api.deepgram.com", "Deepgram (STT + TTS)">>,
       <<"api.assemblyai.com", "AssemblyAI (STT)">>,
       <<"api.groq.com", "Groq (STT)">>,
       <<"api.elevenlabs.io", "ElevenLabs (TTS)">>,
       <<"api.openai.com", "OpenAI (LLM)">>,
       <<"api.anthropic.com", "Anthropic (LLM)">> >>

NumProviders == Len(PROVIDERS)

Domains == {PROVIDERS[i][1] : i \in 1..NumProviders}

provider_comments ==
    [d \in Domains |->
        CASE d = "api.deepgram.com" -> "Deepgram (STT + TTS)"
          [] d = "api.assemblyai.com" -> "AssemblyAI (STT)"
          [] d = "api.groq.com" -> "Groq (STT)"
          [] d = "api.elevenlabs.io" -> "ElevenLabs (TTS)"
          [] d = "api.openai.com" -> "OpenAI (LLM)"
          [] d = "api.anthropic.com" -> "Anthropic (LLM)"]

\* provider_comments.get(domain, domain)
CommentFor(domain) ==
    IF domain \in DOMAIN provider_comments THEN provider_comments[domain]
    ELSE domain

Sentinel == <<"FAILED_TO_EXTRACT">>
Prefix == <<"sha256/">>
BackupPin == <<"sha256/", "BACKUP_PIN_HERE">>

\* Optional[str]: None, or a string
None == [some |-> FALSE, val |-> <<>>]
Some(s) == [some |-> TRUE, val |-> s]

\* Python truthiness of an Optional[str]: None and "" are false
Truthy(p) == p.some /\ p.val # <<>>

\* the exit status: none while the process runs, then one number
NoExit == <<>>
ExitWith(code) == <<code>>

-----------------------------------------------------------------------------
(* str.strip() *)

Whitespace == {"sp", "nl", "tab"}

RECURSIVE lstrip(_)
lstrip(s) ==
    IF s # <<>> /\ Head(s) \in Whitespace THEN lstrip(Tail(s)) ELSE s

RECURSIVE rstrip(_)
rstrip(s) ==
    IF s # <<>> /\ s[Len(s)] \in Whitespace
    THEN rstrip(SubSeq(s, 1, Len(s) - 1))
    ELSE s

strip(s) == rstrip(lstrip(s))

-----------------------------------------------------------------------------
(* The shell pipeline of cmd.  Stage i "breaks" when i is in the set F     *)
(* (no connection, unreadable key, missing tool, ...).  Standard error of  *)
(* the first three stages goes to /dev/null; the shell runs without        *)
(* pipefail, so its status is the status of the last stage.                *)

Stages == 1..5

\* echo | openssl s_client -connect domain:443 -servername domain
SClient(domain, F) == IF 1 \in F THEN <<>> ELSE <<"cert", domain>>

\* openssl x509 -pubkey -noout : no certificate on input, no output
X509(in, F) == IF 2 \in F \/ in = <<>> THEN <<>> ELSE <<"pubkey">> \o in

\* openssl pkey -pubin -outform der : no key on input, no output
PKey(in, F) == IF 3 \in F \/ in = <<>> THEN <<>> ELSE <<"der">> \o in

\* openssl dgst -sha256 -binary : digests whatever it reads, also nothing
Dgst(in, F) == IF 4 \in F THEN <<>> ELSE <<"sha256">> \o in

\* openssl enc -base64 : encodes whatever it reads; nothing gives nothing
Enc(in, F) ==
    IF 5 \in F \/ in = <<>> THEN <<>> ELSE <<"base64">> \o in \o <<"nl">>

PipelineStdout(domain, F) ==
    Enc(Dgst(PKey(X509(SClient(domain, F), F), F), F), F)

\* exit status of the shell: that of the last command of the pipeline
PipelineStatus(F) == IF 5 \in F THEN 1 ELSE 0

\* TRUE when some stage of the extraction did not do its work
StepFailed(domain, F) ==
    \/ F # {}
    \/ SClient(domain, F) = <<>>
    \/ X509(SClient(domain, F), F) = <<>>
    \/ PKey(X509(SClient(domain, F), F), F) = <<>>

-----------------------------------------------------------------------------
(* subprocess.run(cmd, shell=True, capture_output=True, text=True,         *)
(* timeout=10): raises when the shell cannot be started, raises            *)
(* TimeoutExpired when the run outlasts the timeout, else returns the      *)
(* status and the captured standard output.                                *)

Completed(rc, stdout, failed) ==
    [kind |-> "completed", rc |-> rc, stdout |-> stdout, stepFailed |-> failed]
TimeoutExpired ==
    [kind |-> "timeout", rc |-> 0, stdout |-> <<>>, stepFailed |-> FALSE]
OtherException ==
    [kind |-> "error", rc |-> 0, stdout |-> <<>>, stepFailed |-> FALSE]

\* run times tried: an immediate end, and the ends around the timeout
Durations == {0} \cup (TIMEOUT..MaxDuration)

SubprocessRun(domain, oserror, duration, F) ==
    IF oserror THEN OtherException
    ELSE IF duration > TIMEOUT THEN TimeoutExpired
    ELSE Completed(PipelineStatus(F), PipelineStdout(domain, F),
                   StepFailed(domain, F))

-----------------------------------------------------------------------------
(* Printed lines *)

Line(k, d, v) == [k |-> k, d |-> d, v |-> v]

Rule == Line("rule", "", <<>>)
Blank == Line("blank", "", <<>>)
Title(t) == Line("title", "", <<t>>)
Text(t) == Line("text", "", <<t>>)
ExtractingLine(domain, name) == Line("extracting", domain, <<name>>)
PinLine(pin) == Line("pin_ok", "", pin)
FailLine == Line("pin_fail", "", <<>>)
TimeoutLine(domain) == Line("timeout", domain, <<>>)
ErrorLine(e) == Line("error", "", <<e>>)
WarningLine == Line("warning", "", <<>>)
WarningItem(domain) == Line("warning_item", domain, <<>>)
AdviceLine == Line("advice", "", <<>>)
CommentLine(comment) == Line("comment", "", <<comment>>)
AddLine(domain, pin) == Line("add", domain, pin)
BackupLine(domain) == Line("backup", domain, BackupPin)

-----------------------------------------------------------------------------
(* extract_pin(domain), given what subprocess.run did: the returned value, *)
(* the lines it printed, and whether an exception left the function.       *)

\* faulty variant: the prefix is left out
FormatPinRaw(pin_hash) == pin_hash

FormatPin(pin_hash) == Prefix \o pin_hash

\* faulty variant: the handler for other exceptions raises again
ExtractPinPropagates(domain, o) ==
    IF o.kind = "timeout"
    THEN [ret |-> None, printed |-> <<TimeoutLine(domain)>>, raised |-> FALSE]
    ELSE IF o.kind = "error"
    THEN [ret |-> None, printed |-> <<ErrorLine("e")>>, raised |-> TRUE]
    ELSE IF o.rc = 0 /\ strip(o.stdout) # <<>>
    THEN [ret |-> Some(FormatPin(strip(o.stdout))), printed |-> <<>>,
          raised |-> FALSE]
    ELSE [ret |-> None, printed |-> <<>>, raised |-> FALSE]

\* faulty variant: the timeout handler prints nothing
ExtractPinSilentTimeout(domain, o) ==
    IF o.kind = "timeout"
    THEN [ret |-> None, printed |-> <<>>, raised |-> FALSE]
    ELSE IF o.kind = "error"
    THEN [ret |-> None, printed |-> <<ErrorLine("e")>>, raised |-> FALSE]
    ELSE IF o.rc = 0 /\ strip(o.stdout) # <<>>
    THEN [ret |-> Some(FormatPin(strip(o.stdout))), printed |-> <<>>,
          raised |-> FALSE]
    ELSE [ret |-> None, printed |-> <<>>, raised |-> FALSE]

\* faulty variant: the exit status is not looked at
ExtractPinIgnoresStatus(domain, o) ==
    IF o.kind = "timeout"
    THEN [ret |-> None, printed |-> <<TimeoutLine(domain)>>, raised |-> FALSE]
    ELSE IF o.kind = "error"
    THEN [ret |-> None, printed |-> <<ErrorLine("e")>>, raised |-> FALSE]
    ELSE IF strip(o.stdout) # <<>>
    THEN [ret |-> Some(FormatPin(strip(o.stdout))), printed |-> <<>>,
          raised |-> FALSE]
    ELSE [ret |-> None, printed |-> <<>>, raised |-> FALSE]

ExtractPin(domain, o) ==
    IF o.kind = "timeout"
    THEN [ret |-> None, printed |-> <<TimeoutLine(domain)>>, raised |-> FALSE]
    ELSE IF o.kind = "error"
    THEN [ret |-> None, printed |-> <<ErrorLine("e")>>, raised |-> FALSE]
    ELSE IF o.rc = 0 /\ strip(o.stdout) # <<>>
    THEN [ret |-> Some(FormatPin(strip(o.stdout))), printed |-> <<>>,
          raised |-> FALSE]
    ELSE [ret |-> None, printed |-> <<>>, raised |-> FALSE]

-----------------------------------------------------------------------------
(* dict operations on pins, a sequence of <<key, value>> items *)

DictKeys(m) == [i \in 1..Len(m) |-> m[i][1]]

DictHas(m, k) == \E i \in 1..Len(m) : m[i][1] = k

\* faulty variant: a new key goes first
DictSetFront(m, k, v) ==
    IF DictHas(m, k)
    THEN [i \in 1..Len(m) |-> IF m[i][1] = k THEN <<k, v>> ELSE m[i]]
    ELSE <<<<k, v>>>> \o m

\* m[k] = v : a new key goes last, an old key keeps its place
DictSet(m, k, v) ==
    IF DictHas(m, k)
    THEN [i \in 1..Len(m) |-> IF m[i][1] = k THEN <<k, v>> ELSE m[i]]
    ELSE Append(m, <<k, v>>)

DictGet(m, k) == m[CHOOSE i \in 1..Len(m) : m[i][1] = k][2]

-----------------------------------------------------------------------------
(* main *)

RECURSIVE Flatten(_)
Flatten(ss) == IF ss = <<>> THEN <<>> ELSE Head(ss) \o Flatten(Tail(ss))

Banner == <<Rule, Title("Certificate Pin Extractor for UnaMentis"), Rule, Blank>>

\* the value main stores for what extract_pin returned
Recorded(pin) == IF Truthy(pin) THEN pin.val ELSE Sentinel

\* the line main prints for what extract_pin returned
ReportLine(pin) == IF Truthy(pin) THEN PinLine(pin.val) ELSE FailLine

\* faulty variant: a failed provider is tried again
LoopNextRetry(pin, i) ==
    IF Truthy(pin)
    THEN [pc |-> IF i < NumProviders THEN "loop" ELSE "summary", idx |-> i + 1]
    ELSE [pc |-> "loop", idx |-> i]

\* faulty variant: the first failure ends the run
LoopNextAbort(pin, i) ==
    IF Truthy(pin)
    THEN [pc |-> IF i < NumProviders THEN "loop" ELSE "summary", idx |-> i + 1]
    ELSE [pc |-> "check", idx |-> i + 1]

\* where the for loop goes after provider i was handled, whatever pin is:
\* on to the next provider, or past the loop after the last one
LoopNext(pin, i) ==
    [pc |-> IF i < NumProviders THEN "loop" ELSE "summary", idx |-> i + 1]

SummaryMark(pin) == IF pin # Sentinel THEN "ok" ELSE "fail"

SummaryLine(domain, pin) == Line("summary", domain, <<SummaryMark(pin)>> \o pin)

SummaryLines(m) ==
    <<Rule, Title("Certificate Pins Summary"), Rule, Blank>>
    \o [i \in 1..Len(m) |-> SummaryLine(m[i][1], m[i][2])]
    \o <<Blank>>

\* faulty variant: a failed domain is left out of the template
TemplateEntrySkipFailed(m, domain) ==
    IF DictGet(m, domain) = Sentinel
    THEN <<>>
    ELSE <<CommentLine(CommentFor(domain)),
           AddLine(domain, DictGet(m, domain)),
           BackupLine(domain),
           Blank>>

TemplateEntry(m, domain) ==
    <<CommentLine(CommentFor(domain)),
      AddLine(domain, DictGet(m, domain)),
      BackupLine(domain),
      Blank>>

TemplateLines(m) ==
    <<Rule, Title("Kotlin Code for CertificatePinning.kt"), Rule, Blank,
      Text("// Update CertificatePinning.kt"),
      Text("// Replace the placeholder pins"),
      Blank,
      Text("val pinner: CertificatePinner by lazy {"),
      Text("    CertificatePinner.Builder()")>>
    \o Flatten([i \in 1..Len(m) |-> TemplateEntry(m, DictKeys(m)[i])])
    \o <<Text("        .build()"), Text("}"), Blank>>

NotesLines ==
    <<Rule, Title("Important Notes"), Rule, Blank,
      Text("1."), Text("2."), Text("3."), Text("4."), Text("5."),
      Blank,
      Text("Certificate Transparency Logs:"),
      Text("  - https://crt.sh"),
      Text("  - https://transparencyreport.google.com/https/certificates"),
      Blank,
      Rule, Title("Done!"), Rule>>

\* faulty variant: the comparison with the sentinel is inverted
FailuresInverted(m) == SelectSeq(m, LAMBDA item : item[2] # Sentinel)

\* failures = [d for d, p in pins.items() if p == "FAILED_TO_EXTRACT"]
Failures(m) == SelectSeq(m, LAMBDA item : item[2] = Sentinel)

WarningLines(failures) ==
    <<Blank, WarningLine>>
    \o [i \in 1..Len(failures) |-> WarningItem(failures[i][1])]
    \o <<Blank, AdviceLine>>

Init ==
    /\ pc = "start"
    /\ idx = 1
    /\ pins = <<>>
    /\ out = <<>>
    /\ calls = <<>>
    /\ inflight = {}
    /\ results = <<>>
    /\ exitCode = NoExit

\* lines 91-97: the banner, and pins = {}
Start ==
    /\ pc = "start"
    /\ out' = out \o Banner
    /\ pins' = <<>>
    /\ pc' = "loop"
    /\ UNCHANGED <<idx, calls, inflight, results, exitCode>>

\* lines 99-102 and 66: the loop takes the next provider, prints the
\* progress line and extract_pin enters subprocess.run
BeginExtract ==
    /\ pc = "loop"
    /\ idx <= NumProviders
    /\ out' = Append(out, ExtractingLine(PROVIDERS[idx][1], PROVIDERS[idx][2]))
    /\ calls' = Append(calls, PROVIDERS[idx][1])
    /\ inflight' = inflight \cup {PROVIDERS[idx][1]}
    /\ pc' = "running"
    /\ UNCHANGED <<idx, pins, results, exitCode>>

\* lines 66-85 and 102-112: subprocess.run ends, extract_pin returns (or an
\* exception leaves it), main records and reports the result
EndExtractWith(o) ==
    LET domain == PROVIDERS[idx][1]
        r == ExtractPin(domain, o)
    IN  /\ inflight' = inflight \ {domain}
        /\ results' = Append(results,
                             [d |-> domain, kind |-> o.kind, rc |-> o.rc,
                              stdout |-> o.stdout, stepFailed |-> o.stepFailed,
                              ret |-> r.ret, raised |-> r.raised])
        /\ IF r.raised
           THEN /\ out' = out \o r.printed
                /\ pc' = "crashed"
                /\ exitCode' = ExitWith(1)
                /\ UNCHANGED <<idx, pins>>
           ELSE /\ pins' = DictSet(pins, domain, Recorded(r.ret))
                /\ out' = out \o r.printed \o <<ReportLine(r.ret), Blank>>
                /\ pc' = LoopNext(r.ret, idx).pc
                /\ idx' = LoopNext(r.ret, idx).idx
                /\ UNCHANGED exitCode
        /\ UNCHANGED calls

EndExtract ==
    /\ pc = "running"
    /\ \/ EndExtractWith(SubprocessRun(PROVIDERS[idx][1], TRUE, 0, {}))
       \/ \E duration \in Durations :
              \E F \in (IF duration > TIMEOUT THEN {{}} ELSE SUBSET Stages) :
                 EndExtractWith(
                     SubprocessRun(PROVIDERS[idx][1], FALSE, duration, F))

\* lines 114-124
Summary ==
    /\ pc = "summary"
    /\ out' = out \o SummaryLines(pins)
    /\ pc' = "template"
    /\ UNCHANGED <<idx, pins, calls, inflight, results, exitCode>>

\* lines 126-158
Template ==
    /\ pc = "template"
    /\ out' = out \o TemplateLines(pins)
    /\ pc' = "notes"
    /\ UNCHANGED <<idx, pins, calls, inflight, results, exitCode>>

\* lines 160-177
Notes ==
    /\ pc = "notes"
    /\ out' = out \o NotesLines
    /\ pc' = "check"
    /\ UNCHANGED <<idx, pins, calls, inflight, results, exitCode>>

\* lines 179-188, and the return of main when nothing failed
Exit ==
    /\ pc = "check"
    /\ IF Failures(pins) # <<>>
       THEN /\ out' = out \o WarningLines(Failures(pins))
            /\ exitCode' = ExitWith(1)
       ELSE /\ out' = out
            /\ exitCode' = ExitWith(0)
    /\ pc' = "exited"
    /\ UNCHANGED <<idx, pins, calls, inflight, results>>

Next ==
    \/ Start
    \/ BeginExtract
    \/ EndExtract
    \/ Summary
    \/ Template
    \/ Notes
    \/ Exit

Spec == Init /\ [][Next]_vars

\* the interpreter runs the single thread until it exits
FairSpec == Spec /\ WF_vars(Next)

-----------------------------------------------------------------------------
(* extract_pin alone, on any result of the tool: every exit status of      *)
(* Statuses with every standard output of at most MaxLen characters, and   *)
(* the two exceptions.                                                     *)

Chars == {"sp", "nl", "A", "B"}
Stdouts == UNION {[1..n -> Chars] : n \in 0..MaxLen}
Statuses == {0, 1, 127}

InitExtract ==
    /\ pc = "call"
    /\ idx = 1
    /\ pins = <<>>
    /\ out = <<>>
    /\ calls = <<>>
    /\ inflight = {}
    /\ results = <<>>
    /\ exitCode = NoExit

CallExtractWith(domain, o) ==
    LET r == ExtractPin(domain, o)
    IN  /\ results' = Append(results,
                             [d |-> domain, kind |-> o.kind, rc |-> o.rc,
                              stdout |-> o.stdout, stepFailed |-> o.stepFailed,
                              ret |-> r.ret, raised |-> r.raised])
        /\ out' = out \o r.printed
        /\ calls' = Append(calls, domain)
        /\ pc' = "returned"
        /\ UNCHANGED <<idx, pins, inflight, exitCode>>

CallExtract ==
    /\ pc = "call"
    /\ \E domain \in Domains :
          \/ CallExtractWith(domain, TimeoutExpired)
          \/ CallExtractWith(domain, OtherException)
          \/ \E rc \in Statuses, stdout \in Stdouts :
                CallExtractWith(domain, Completed(rc, stdout, rc # 0))

NextExtract == CallExtract

SpecExtract == InitExtract /\ [][NextExtract]_vars

-----------------------------------------------------------------------------
(* Vocabulary of the properties *)

SixDomains ==
    <<"api.deepgram.com", "api.assemblyai.com", "api.groq.com",
      "api.elevenlabs.io", "api.openai.com", "api.anthropic.com">>

Calls == 1..Len(results)

\* extract_pin signalled failure to main in its i-th call
Failed(i) == ~Truthy(results[i].ret)

PastLoop == pc \in {"summary", "template", "notes", "check", "exited"}

\* the text between the surrounding whitespace of s, found by position
HasText(s) == \E i \in 1..Len(s) : s[i] \notin Whitespace
FirstText(s) ==
    CHOOSE i \in 1..Len(s) :
        s[i] \notin Whitespace /\ \A j \in 1..(i - 1) : s[j] \in Whitespace
LastText(s) ==
    CHOOSE i \in 1..Len(s) :
        s[i] \notin Whitespace /\ \A j \in (i + 1)..Len(s) : s[j] \in Whitespace
Stripped(s) == IF HasText(s) THEN SubSeq(s, FirstText(s), LastText(s)) ELSE <<>>

\* the lines of given kinds, in the order they were printed
LinesOf(kinds) == SelectSeq(out, LAMBDA l : l.k \in kinds)

\* the value main is to record for the i-th call
Expected(i) == IF Failed(i) THEN Sentinel ELSE results[i].ret.val

-----------------------------------------------------------------------------
\* C1: whenever a step of the extraction fails (connection, key extraction,
\* DER encoding, digest, base64) or the timeout elapses or another error is
\* raised, extract_pin returns failure and main records the sentinel for the
\* domain: a failed step never yields a recorded "sha256/..." pin.
C1_FailedStepRecordsSentinel ==
    \A i \in Calls :
        (results[i].kind # "completed" \/ results[i].stepFailed)
            => /\ Failed(i)
               /\ DictHas(pins, results[i].d)
               /\ DictGet(pins, results[i].d) = Sentinel

-----------------------------------------------------------------------------
\* C2: after the k-th provider has been handled pins holds exactly the first
\* k of the six domains, in the declared order, and once the loop has
\* finished it holds all six, whatever the outcomes were.
C2_PinsFollowProviders ==
    /\ Len(pins) = Len(results)
    /\ Len(pins) <= 6
    /\ DictKeys(pins) = SubSeq(SixDomains, 1, Len(pins))
    /\ PastLoop => DictKeys(pins) = SixDomains

C2_Witness ==
    /\ pc = "summary"
    /\ Len(pins) = 6
    /\ {results[i].kind : i \in Calls} = {"completed", "timeout", "error"}
    /\ \E i \in Calls : ~Failed(i)
    /\ \E i \in Calls : results[i].kind = "completed" /\ Failed(i)

-----------------------------------------------------------------------------
\* C3: the exit code is 0 exactly when all six calls of extract_pin returned
\* a pin and 1 exactly when at least one returned failure; with exit code 1
\* the warning lists exactly the domains that failed, in provider order.
\* The process has no exit code before it exits.
C3_ExitCode ==
    /\ pc = "exited" <=> exitCode # NoExit
    /\ pc = "exited" =>
        /\ Len(results) = 6
        /\ exitCode = <<0>> <=> \A i \in Calls : ~Failed(i)
        /\ exitCode = <<1>> <=> \E i \in Calls : Failed(i)
        /\ LET listed == LinesOf({"warning_item"})
               failed == SelectSeq(results, LAMBDA r : ~Truthy(r.ret))
           IN  /\ Len(listed) = Len(failed)
               /\ \A j \in 1..Len(listed) : listed[j].d = failed[j].d
        /\ exitCode = <<0>> => LinesOf({"warning", "warning_item", "advice"}) = <<>>
        /\ exitCode = <<1>> => Len(LinesOf({"warning"})) = 1

C3_Witness ==
    /\ pc = "exited"
    /\ exitCode = <<1>>
    /\ Cardinality({i \in Calls : Failed(i)}) = 2
    /\ Failed(2) /\ ~Failed(3) /\ Failed(5)
    /\ LinesOf({"warning_item"})
         = <<WarningItem("api.assemblyai.com"), WarningItem("api.openai.com")>>

-----------------------------------------------------------------------------
\* C9: when the tool ends with an exit status, extract_pin returns a pin
\* exactly when the status is 0 and the standard output has text between its
\* surrounding whitespace; the pin is "sha256/" followed by that text; with a
\* nonzero status, or an empty or whitespace-only output, it returns None.
C9_PinIffStatusAndOutput ==
    \A i \in Calls :
        results[i].kind = "completed" =>
            IF results[i].rc = 0 /\ HasText(results[i].stdout)
            THEN results[i].ret = Some(<<"sha256/">> \o Stripped(results[i].stdout))
            ELSE results[i].ret = None

C9_Witness ==
    /\ pc = "returned"
    /\ results[1].kind = "completed"
    /\ results[1].rc = 0
    /\ results[1].stdout = <<"nl", "A", "sp">>
    /\ results[1].ret = Some(<<"sha256/", "A">>)

-----------------------------------------------------------------------------
\* C10: a returned pin begins with "sha256/" and is never the sentinel, so
\* the three comparisons with the sentinel agree with what extract_pin
\* returned: for every domain, the summary line is marked failed, the
\* warning names the domain, and the exit code is 1 on its account, exactly
\* when extract_pin returned failure for it.
C10_SentinelClassifies ==
    /\ \A i \in Calls :
          ~Failed(i) => /\ Head(results[i].ret.val) = "sha256/"
                        /\ results[i].ret.val # Sentinel
    /\ \A i \in 1..Len(pins) : (pins[i][2] = Sentinel) <=> Failed(i)
    /\ pc \in {"template", "notes", "check", "exited"} =>
          LET summary == LinesOf({"summary"})
          IN  /\ Len(summary) = Len(results)
              /\ \A i \in Calls :
                    /\ summary[i].d = results[i].d
                    /\ (Head(summary[i].v) = "fail") <=> Failed(i)
                    /\ Tail(summary[i].v) = Expected(i)
    /\ pc = "exited" =>
          /\ \A i \in Calls :
                (WarningItem(results[i].d) \in
                    {out[j] : j \in 1..Len(out)}) <=> Failed(i)
          /\ exitCode = <<1>> <=> \E i \in Calls : Failed(i)

C10_Witness ==
    /\ pc = "exited"
    /\ Failed(1) /\ ~Failed(2) /\ Failed(6)
    /\ results[1].kind = "completed"
    /\ results[6].kind = "timeout"
    /\ exitCode = <<1>>

-----------------------------------------------------------------------------
\* C4: a failed extraction (timeout, tool failure, error while invoking the
\* tool) never stops the run: no exception leaves extract_pin; after a
\* failed provider the next provider is attempted; the run can always take
\* its next step until it has exited, every step brings it closer to the
\* exit, and at the exit all six providers were attempted and the summary,
\* the template and the notes are printed.
FullOutput ==
    /\ [i \in 1..5 |-> LinesOf({"title"})[i].v[1]]
         = <<"Certificate Pin Extractor for UnaMentis",
             "Certificate Pins Summary",
             "Kotlin Code for CertificatePinning.kt",
             "Important Notes", "Done!">>
    /\ Len(LinesOf({"summary"})) = 6
    /\ Len(LinesOf({"add"})) = 6

RunComplete ==
    /\ pc = "exited"
    /\ calls = SixDomains
    /\ Len(results) = 6
    /\ Len(LinesOf({"title"})) = 5
    /\ FullOutput

\* the number of steps the run has left
StepsLeft ==
    CASE pc = "start" -> 2 * NumProviders + 6
      [] pc = "loop" -> 2 * (NumProviders + 1 - idx) + 5
      [] pc = "running" -> 2 * (NumProviders + 1 - idx) + 4
      [] pc = "summary" -> 4
      [] pc = "template" -> 3
      [] pc = "notes" -> 2
      [] pc = "check" -> 1
      [] OTHER -> 0

C4_FailureNeverStopsRun ==
    /\ [](/\ pc # "crashed"
          /\ \A i \in Calls : ~results[i].raised
          /\ \A i \in Calls :
                (Failed(i) /\ i < 6) =>
                    \/ pc = "loop" /\ idx = i + 1
                    \/ Len(calls) > i /\ calls[i + 1] = SixDomains[i + 1]
          /\ pc # "exited" => ENABLED Next
          /\ pc = "exited" => RunComplete)
    /\ [][StepsLeft' < StepsLeft]_vars

\* C4, as a property of the fair runs: once a provider has failed, the run
\* goes on until it has exited with all six providers attempted and the
\* whole output printed.
C4_FailureLeadsToCompletion ==
    (\E i \in Calls : Failed(i)) ~> RunComplete

C4_Witness ==
    /\ pc = "exited"
    /\ results[1].kind = "error"
    /\ ~Failed(2)
    /\ results[3].kind = "timeout"
    /\ results[4].kind = "completed" /\ Failed(4)
    /\ ~Failed(6)
    /\ FullOutput

-----------------------------------------------------------------------------
\* C5: once the template is printed it holds, for each provider in provider
\* order, exactly one .add line with the domain and its recorded result and
\* exactly one backup-placeholder line for the same domain; a provider whose
\* extraction returned failure is printed too, with the sentinel as its pin.
\* Nothing of the template is printed before the template phase.
C5_TemplateLines ==
    LET t == LinesOf({"add", "backup"})
    IN  IF pc \in {"notes", "check", "exited"}
        THEN /\ Len(t) = 12
             /\ \A i \in 1..6 :
                   /\ t[2 * i - 1] = [k |-> "add", d |-> SixDomains[i],
                                      v |-> Expected(i)]
                   /\ t[2 * i] = [k |-> "backup", d |-> SixDomains[i],
                                  v |-> <<"sha256/", "BACKUP_PIN_HERE">>]
        ELSE t = <<>>

C5_Witness ==
    /\ pc = "notes"
    /\ ~Failed(1) /\ Failed(2) /\ Failed(6)
    /\ LinesOf({"add"})[2]
         = [k |-> "add", d |-> "api.assemblyai.com", v |-> <<"FAILED_TO_EXTRACT">>]
    /\ LinesOf({"add"})[1].v # <<"FAILED_TO_EXTRACT">>

-----------------------------------------------------------------------------
\* C6: the tool is invoked once per domain, in provider order, also after a
\* failure or a timeout, and an invocation has ended before the next one
\* starts: at most one is in progress at any time.
C6_OnceAndSequential ==
    /\ Cardinality(inflight) <= 1
    /\ Len(calls) <= 6
    /\ calls = SubSeq(SixDomains, 1, Len(calls))
    /\ \A i, j \in 1..Len(calls) : i # j => calls[i] # calls[j]
    /\ Len(calls) = Len(results) + Cardinality(inflight)
    /\ inflight # {} => pc = "running" /\ inflight = {calls[Len(calls)]}
    /\ PastLoop => calls = SixDomains /\ inflight = {}

C6_Witness ==
    /\ pc = "running"
    /\ Len(calls) = 3
    /\ results[1].kind = "timeout"
    /\ results[2].kind = "completed" /\ Failed(2)
    /\ inflight = {"api.groq.com"}

-----------------------------------------------------------------------------
\* C7: the phases come in the order extraction, summary, template, notes,
\* exit; the process has an exit code only once it has exited; a non-zero
\* exit comes after the summary, the template and the notes are printed in
\* full, and the failure warning (its header, the failed domains and the
\* closing advice) is the last thing printed.
LineRank(l) ==
    CASE l.k \in {"extracting", "pin_ok", "pin_fail", "timeout", "error"} -> 1
      [] l.k = "summary" -> 2
      [] l.k \in {"comment", "add", "backup"} -> 3
      [] l.k \in {"warning", "warning_item", "advice"} -> 5
      [] l.k = "title" ->
            (CASE l.v = <<"Certificate Pin Extractor for UnaMentis">> -> 1
               [] l.v = <<"Certificate Pins Summary">> -> 2
               [] l.v = <<"Kotlin Code for CertificatePinning.kt">> -> 3
               [] OTHER -> 4)
      [] OTHER -> 0

TitlesAt(p) ==
    CASE p = "start" -> 0
      [] p \in {"loop", "running", "summary"} -> 1
      [] p = "template" -> 2
      [] p = "notes" -> 3
      [] OTHER -> 5

C7_ExitOnlyAtEnd ==
    LET ranked == SelectSeq(out, LAMBDA l : LineRank(l) # 0)
    IN  /\ \A i \in 1..(Len(ranked) - 1) :
              LineRank(ranked[i]) <= LineRank(ranked[i + 1])
        /\ Len(LinesOf({"title"})) = TitlesAt(pc)
        /\ exitCode # NoExit => pc = "exited"
        /\ pc \in {"check", "exited"} => FullOutput
        /\ pc # "exited" => LinesOf({"warning", "warning_item", "advice"}) = <<>>
        /\ exitCode = <<1>> =>
              /\ out[Len(out)].k = "advice"
              /\ \E w \in 1..Len(out) :
                    /\ out[w].k = "warning"
                    /\ out[w - 2] = [k |-> "rule", d |-> "", v |-> <<>>]
                    /\ out[w - 3] = [k |-> "title", d |-> "", v |-> <<"Done!">>]
                    /\ \A j \in (w + 1)..(Len(out) - 2) : out[j].k = "warning_item"
        /\ exitCode = <<0>> =>
              out[Len(out) - 1] = [k |-> "title", d |-> "", v |-> <<"Done!">>]

C7_Witness ==
    /\ pc = "exited"
    /\ exitCode = <<1>>
    /\ Failed(4) /\ ~Failed(6)
    /\ out[Len(out)].k = "advice"

-----------------------------------------------------------------------------
\* C8: what is printed for a failed domain depends on the cause: on timeout
\* extract_pin prints one timeout line naming the domain, and the recorded
\* result is the sentinel; on another exception it prints one line with the
\* error message; when the tool exits nonzero or yields no output it prints
\* nothing; in all three cases main prints exactly one failure line.
ExtractingAt(i) ==
    CHOOSE p \in 1..Len(out) :
        out[p].k = "extracting" /\ out[p].d = results[i].d

\* the lines printed for the i-th call: from its progress line to the next
\* empty line
Segment(i) ==
    LET p == ExtractingAt(i)
        q == CHOOSE q \in (p + 1)..Len(out) :
                 /\ out[q].k = "blank"
                 /\ \A r \in (p + 1)..(q - 1) : out[r].k # "blank"
    IN  SubSeq(out, p + 1, q - 1)

C8_Diagnostics ==
    \A i \in Calls :
        LET r == results[i]
            failLine == [k |-> "pin_fail", d |-> "", v |-> <<>>]
        IN  /\ r.kind = "timeout" =>
                 /\ Segment(i) = <<[k |-> "timeout", d |-> r.d, v |-> <<>>],
                                   failLine>>
                 /\ DictGet(pins, r.d) = <<"FAILED_TO_EXTRACT">>
            /\ r.kind = "error" =>
                 /\ Len(Segment(i)) = 2
                 /\ Segment(i)[1].k = "error"
                 /\ Segment(i)[1].v # <<>>
                 /\ Segment(i)[2] = failLine
            /\ (r.kind = "completed" /\ (r.rc # 0 \/ ~HasText(r.stdout))) =>
                 Segment(i) = <<failLine>>

C8_Witness ==
    /\ pc = "loop"
    /\ Len(results) = 4
    /\ results[1].kind = "timeout"
    /\ results[2].kind = "error"
    /\ results[3].kind = "completed" /\ results[3].rc # 0
    /\ results[4].kind = "completed" /\ results[4].rc = 0
    /\ results[4].stdout = <<>>
    /\ Len(LinesOf({"pin_fail"})) = 4
    /\ Len(LinesOf({"timeout", "error"})) = 2

====
